---- MODULE Spec2Model ----
(***************************************************************************)
(* Car and pedestrian tracking pipeline.                                   *)
(*                                                                         *)
(* The model follows one run of the program from the construction of the   *)
(* tracker to the return of the frame loop, statement by statement:        *)
(*   mode = "main"      cars_and_peds.main -> CarPedestrianTracker(...)    *)
(*                      -> process_video                                   *)
(*   mode = "advanced"  AdvancedTracker(...)                               *)
(*                      -> process_video_with_advanced_features            *)
(* The environment (cascade files, the video source, the detector, the     *)
(* clock, the keyboard, SIGINT) is a nondeterministic choice at the        *)
(* statement that consults it.                                             *)
(***************************************************************************)
EXTENDS Integers, Sequences, FiniteSets, TLC

(* Number of frames the source can deliver before it stops delivering. *)
MaxFrames == 3

(* The long run: a source of LongRun frames, more than the history keeps,
   watched without keyboard input; its first VariedFrames frames show
   traffic and take measurable time, later frames show an empty road. *)
LongRun == 32
VariedFrames == 2

(* advanced_usage.py:51  "if len(self.detection_history) > 30" *)
HistoryWindow == 30
(* advanced_usage.py:91  "detection_time'][-10:]" *)
TimingWindow == 10
(* advanced_usage.py:81  "if min_dist < 100" *)
TrackingDistance == 100

VARIABLES
    mode,               \* which entry point runs
    pc,                 \* position of the (single) thread
    exc,                \* exception in flight / raised out of the call
    exit_code,          \* process exit status, -1 while the process runs
    car_cascade,        \* state of the car cascade file
    ped_cascade,        \* state of the pedestrian cascade file
    source_ok,          \* does cap.isOpened() answer True
    output_path,        \* was an output path given
    cap,                \* capture handle: "none", "open", "released"
    writer,             \* writer handle:  "none", "open", "unopened", "released"
    cap_releases,       \* calls of cap.release()
    writer_releases,    \* calls of writer.release()
    nread,              \* frames delivered by cap.read() so far
    ret,                \* what the last cap.read() was: "none","frame","eos","fail"
    frame_count,        \* self.frame_count
    total_cars,         \* self.total_cars
    total_pedestrians,  \* self.total_pedestrians
    cars,               \* local: car detections of the current frame
    pedestrians,        \* local: pedestrian detections of the current frame
    key,                \* local: key polled in this tick, -1 before the poll
    written,            \* frames handed to writer.write, in order
    stored,             \* frames the output file holds, in order
    screenshots,        \* artifacts written by cv2.imwrite, in order
    detection_history,  \* AdvancedTracker.detection_history
    detection_time,     \* performance_metrics['detection_time']
    fps,                \* performance_metrics['fps']
    frame_times,        \* len(performance_metrics['frame_processing_time'])
    tick_steps,         \* statements executed for the current frame, in order
    logs,               \* messages emitted so far
    frame,              \* local: the frame array and what was drawn on it
    candidates,         \* previous detections the last drawing compared with
    prev_detected,      \* cars local as it was before the last detection
    seen                \* frames read and objects detected since the last
                        \* reset was applied (or since construction)

vars == <<mode, pc, exc, exit_code, car_cascade, ped_cascade, source_ok,
          output_path, cap, writer, cap_releases, writer_releases, nread, ret,
          frame_count, total_cars, total_pedestrians, cars, pedestrians, key,
          written, stored, screenshots, detection_history, detection_time, fps,
          frame_times, tick_steps, logs, frame, candidates, prev_detected,
          seen>>

env == <<mode, car_cascade, ped_cascade, source_ok, output_path>>
handles == <<cap, writer, cap_releases, writer_releases>>
stats == <<frame_count, total_cars, total_pedestrians>>
locals == <<cars, pedestrians, key>>
tracking == <<detection_history, detection_time, fps, frame_times>>
artifacts == <<written, stored, screenshots>>
overlay == <<frame, candidates, prev_detected, seen>>

-----------------------------------------------------------------------------
(* Inputs *)

Modes == {"main", "advanced"}
CascadeStates == {"ok", "missing", "empty"}

Box(x, y, w, h) == [x |-> x, y |-> y, w |-> w, h |-> h]

(* What the two detectMultiScale calls of detect_objects can answer for one
   frame: nothing, or two cars and a pedestrian. *)
DetectorOutputs ==
    { [cars |-> <<>>, pedestrians |-> <<>>],
      [cars |-> <<Box(105, 102, 50, 30), Box(500, 500, 60, 40)>>,
       pedestrians |-> <<Box(200, 200, 40, 80)>>] }

(* A frame as cap.read() delivers it (height, width, channels; uint8) with
   nothing drawn on it, and the None that comes with ret = False. *)
RawFrame == [shape |-> <<480, 640, 3>>, dtype |-> "uint8", drawn |-> <<>>]
NoFrame == [shape |-> <<>>, dtype |-> "none", drawn |-> <<>>]

(* The same, and a single car seen large (near) or small (far). *)
TrackedOutputs ==
    DetectorOutputs \cup
    { [cars |-> <<Box(0, 0, 300, 300)>>, pedestrians |-> <<>>],
      [cars |-> <<Box(90, 0, 10, 10)>>, pedestrians |-> <<>>] }
EmptyRoad == [cars |-> <<>>, pedestrians |-> <<>>]

(* No frame read, no object detected. *)
NothingSeen == [frames |-> 0, cars |-> 0, pedestrians |-> 0]

(* time.time() differences, in clock ticks. *)
TimeSamples == {0, 2}
(* The differences drawn in the short runs. *)
BriefTimes == {2}

(* ord() of the characters the loop compares the key with. *)
Ord == [k |-> 107, K |-> 75, q |-> 113, Q |-> 81,
        s |-> 115, S |-> 83, r |-> 114, R |-> 82, x |-> 120]

(* What cv2.waitKey(1) can return: -1 (no key), a plain character code, or a
   code with modifier bits above the low byte. *)
RawKeys == {-1, Ord.k, Ord.K, Ord.q, Ord.Q, Ord.s, Ord.S, Ord.r, Ord.R, Ord.x,
            1048576 + Ord.q}

(* key = cv2.waitKey(1) & 0xFF *)
MaskKey(raw) == raw % 256

(* Variant: the upper-case aliases are left out of the quit list. *)
QuitKeysLowerCaseOnly == {Ord.k, Ord.q}

QuitKeys == {Ord.k, Ord.K, Ord.q, Ord.Q}
ScreenshotKeys == {Ord.s, Ord.S}
ResetKeys == {Ord.r, Ord.R}

-----------------------------------------------------------------------------
(* Positions *)

(* Statements inside "try:" (the while loop). *)
TryBody == {"read", "count", "detect", "add_cars", "add_peds", "draw",
            "perf_overlay", "stats_overlay", "write", "poll", "dispatch",
            "reset_cars", "reset_peds", "reset_history", "reset_metrics",
            "frame_time"}
(* Statements of "finally:". *)
FinallyBody == {"fin_cap", "fin_writer", "fin_windows", "fin_stats"}
(* Statements before "try:". *)
Prologue == {"load_car", "load_ped", "open", "setup_writer"}

Step(name) == tick_steps' = Append(tick_steps, name)

-----------------------------------------------------------------------------
Init ==
    /\ mode \in Modes
    /\ pc = "load_car"
    /\ exc = "none"
    /\ exit_code = -1
    /\ car_cascade \in CascadeStates
    /\ ped_cascade \in CascadeStates
    /\ source_ok \in BOOLEAN
    /\ output_path \in BOOLEAN
    /\ cap = "none"
    /\ writer = "none"
    /\ cap_releases = 0
    /\ writer_releases = 0
    /\ nread = 0
    /\ ret = "none"
    /\ frame_count = 0
    /\ total_cars = 0
    /\ total_pedestrians = 0
    /\ cars = <<>>
    /\ pedestrians = <<>>
    /\ key = -1
    /\ written = <<>>
    /\ stored = <<>>
    /\ screenshots = <<>>
    /\ detection_history = <<>>
    /\ detection_time = <<>>
    /\ fps = <<>>
    /\ frame_times = 0
    /\ tick_steps = <<>>
    /\ logs = {}
    /\ frame = NoFrame
    /\ candidates = <<>>
    /\ prev_detected = <<>>
    /\ seen = NothingSeen


-----------------------------------------------------------------------------
(* Where control goes when the call returns / raises.  In mode "main" the
   caller is main(); in mode "advanced" the caller is not modelled and the
   run ends with the exception (if any) left in exc. *)
ReturnTo == IF mode = "main" THEN "main_return" ELSE "done"
RaisedTo == IF mode = "main" THEN "main_except" ELSE "done"

Log(msg) == logs' = logs \cup {msg}

(* _load_cascade: a missing file raises FileNotFoundError, a file that yields
   an empty classifier raises RuntimeError, otherwise the load is logged. *)
LoadCascade(status, next) ==
    /\ IF status = "missing"
       THEN /\ exc' = "FileNotFoundError"
            /\ pc' = RaisedTo
            /\ UNCHANGED logs
       ELSE IF status = "empty"
       THEN /\ exc' = "RuntimeError"
            /\ pc' = RaisedTo
            /\ UNCHANGED logs
       ELSE /\ pc' = next
            /\ Log("cascade_loaded")
            /\ UNCHANGED exc
    /\ UNCHANGED <<overlay, exit_code, env, handles, nread, ret, stats, locals,
                   artifacts, tracking, tick_steps>>

LoadCarCascade ==
    /\ pc = "load_car"
    /\ LoadCascade(car_cascade, "load_ped")

LoadPedestrianCascade ==
    /\ pc = "load_ped"
    /\ LoadCascade(ped_cascade, "init_stats")

(* __init__: the statistics start at zero; AdvancedTracker.__init__ adds an
   empty history and empty metric lists. *)
InitStatistics ==
    /\ pc = "init_stats"
    /\ frame_count' = 0
    /\ total_cars' = 0
    /\ total_pedestrians' = 0
    /\ detection_history' = <<>>
    /\ detection_time' = <<>>
    /\ fps' = <<>>
    /\ frame_times' = 0
    /\ pc' = "open"
    /\ UNCHANGED <<overlay, exc, exit_code, env, handles, nread, ret, locals, artifacts,
                   tick_steps, logs>>

(* Variant: the failed open is logged but the call goes on. *)
OpenSourceNoReturn ==
    /\ pc = "open"
    /\ IF source_ok
       THEN /\ cap' = "open"
            /\ UNCHANGED logs
       ELSE /\ Log("source_error")
            /\ UNCHANGED cap
    /\ pc' = "setup_writer"
    /\ UNCHANGED <<overlay, exc, exit_code, env, writer, cap_releases, writer_releases,
                   nread, ret, stats, locals, artifacts, tracking, tick_steps>>

(* cap = cv2.VideoCapture(...); if not cap.isOpened(): log the error, return *)
OpenSource ==
    /\ pc = "open"
    /\ IF source_ok
       THEN /\ cap' = "open"
            /\ pc' = "setup_writer"
            /\ UNCHANGED logs
       ELSE /\ Log("source_error")
            /\ pc' = ReturnTo
            /\ UNCHANGED cap
    /\ UNCHANGED <<overlay, exc, exit_code, env, writer, cap_releases, writer_releases,
                   nread, ret, stats, locals, artifacts, tracking, tick_steps>>

(* What cv2.VideoWriter(...) yields when it returns: a writer that opened
   its file, or a writer object that could not open it (isOpened() is False;
   the constructor does not raise for that). *)
WriterOutcomes == {"open", "unopened"}

(* writer = None; if output_path: writer = cv2.VideoWriter(...).  The code
   does not consult writer.isOpened(). *)
SetupWriter ==
    /\ pc = "setup_writer"
    /\ IF output_path
       THEN \E w \in WriterOutcomes : writer' = w
       ELSE writer' = "none"
    /\ pc' = "read"
    /\ UNCHANGED <<overlay, exc, exit_code, env, cap, cap_releases, writer_releases,
                   nread, ret, stats, locals, artifacts, tracking, tick_steps,
                   logs>>

(* cv2.VideoWriter_fourcc(...) or cv2.VideoWriter(...) raises (cv2.error):
   the statement is before "try:", so the exception leaves the call at once. *)
SetupWriterRaises ==
    /\ pc = "setup_writer"
    /\ output_path
    /\ exc' = "cv2.error"
    /\ pc' = RaisedTo
    /\ UNCHANGED <<overlay, exit_code, env, handles, nread, ret, stats, locals,
                   artifacts, tracking, tick_steps, logs>>

(* ret, frame = cap.read(); if not ret: log "End of video stream"; break.
   cap.read() answers ret = False both at the end of a file and when a grab
   or decode fails; length is the number of frames the stream holds. *)
ReadUpTo(length) ==
    /\ pc = "read"
    /\ \E outcome \in {"frame", "eos", "fail"} :
          /\ outcome = "frame" => nread < length
          /\ ret' = outcome
          /\ IF outcome = "frame"
             THEN /\ nread' = nread + 1
                  /\ seen' = [seen EXCEPT !.frames = @ + 1]
                  /\ frame' = RawFrame
                  /\ tick_steps' = <<"read">>
                  /\ pc' = "count"
                  /\ UNCHANGED logs
             ELSE /\ Log("end_of_stream")
                  /\ frame' = NoFrame
                  /\ tick_steps' = <<>>
                  /\ pc' = "fin_cap"
                  /\ UNCHANGED <<nread, seen>>
    /\ candidates' = <<>>
    /\ UNCHANGED <<prev_detected, exc, exit_code, env, handles, stats, locals,
                   artifacts, tracking>>

ReadFrame == ReadUpTo(MaxFrames)

(* self.frame_count += 1 *)
IncrementFrameCount ==
    /\ pc = "count"
    /\ frame_count' = frame_count + 1
    /\ Step("count")
    /\ pc' = "detect"
    /\ UNCHANGED <<overlay, exc, exit_code, env, handles, nread, ret, total_cars,
                   total_pedestrians, locals, artifacts, tracking, logs>>

(* Variant: at capacity the entry just appended is the one removed. *)
RememberDropNewest(history, entry) ==
    LET h == Append(history, entry)
    IN  IF Len(h) > HistoryWindow THEN SubSeq(h, 1, Len(h) - 1) ELSE h

(* detection_history.append(...); if len(...) > 30: pop(0) *)
Remember(history, entry) ==
    LET h == Append(history, entry)
    IN  IF Len(h) > HistoryWindow THEN Tail(h) ELSE h

(* cars, pedestrians = self.detect_objects(frame)               (main)
   cars, pedestrians = self.detect_objects_with_tracking(frame) (advanced):
   the detections are appended to the history, the history is capped, and
   the time the detection took is appended to detection_time. *)
DetectFrom(outputs, samples) ==
    /\ pc = "detect"
    /\ \E d \in outputs :
          /\ cars' = d.cars
          /\ pedestrians' = d.pedestrians
          /\ seen' = [seen EXCEPT !.cars = @ + Len(d.cars),
                                  !.pedestrians = @ + Len(d.pedestrians)]
          /\ IF mode = "advanced"
             THEN /\ detection_history' =
                        Remember(detection_history,
                                 [frame |-> frame_count, cars |-> d.cars,
                                  pedestrians |-> d.pedestrians])
                  /\ \E dt \in samples :
                        detection_time' = Append(detection_time, dt)
                  /\ prev_detected' = cars
             ELSE UNCHANGED <<detection_history, detection_time, prev_detected>>
    /\ Step("detect")
    /\ pc' = "add_cars"
    /\ UNCHANGED <<frame, candidates, exc, exit_code, env, handles, nread, ret, stats, key,
                   artifacts, fps, frame_times, logs>>

Detect == DetectFrom(DetectorOutputs, BriefTimes)

(* The detector raises (cv2.error) in detect_objects, called at the
   detection step and again from add_statistics_overlay: the exception
   leaves the loop through "finally". *)
DetectorRaises ==
    /\ pc \in {"detect", "stats_overlay"}
    /\ exc' = "cv2.error"
    /\ pc' = "fin_cap"
    /\ UNCHANGED <<overlay, exit_code, env, handles, nread, ret, stats, locals,
                   artifacts, tracking, tick_steps, logs>>

(* Variant: the total is assigned instead of accumulated. *)
AddCarsAssigned ==
    /\ pc = "add_cars"
    /\ total_cars' = Len(cars)
    /\ Step("total_cars")
    /\ pc' = "add_peds"
    /\ UNCHANGED <<overlay, exc, exit_code, env, handles, nread, ret, frame_count,
                   total_pedestrians, locals, artifacts, tracking, logs>>

(* self.total_cars += len(cars) *)
AddCars ==
    /\ pc = "add_cars"
    /\ total_cars' = total_cars + Len(cars)
    /\ Step("total_cars")
    /\ pc' = "add_peds"
    /\ UNCHANGED <<overlay, exc, exit_code, env, handles, nread, ret, frame_count,
                   total_pedestrians, locals, artifacts, tracking, logs>>

(* self.total_pedestrians += len(pedestrians) *)
AddPedestrians ==
    /\ pc = "add_peds"
    /\ total_pedestrians' = total_pedestrians + Len(pedestrians)
    /\ Step("total_pedestrians")
    /\ pc' = "draw"
    /\ UNCHANGED <<overlay, exc, exit_code, env, handles, nread, ret, frame_count,
                   total_cars, locals, artifacts, tracking, logs>>

-----------------------------------------------------------------------------
(* Drawing *)

(* cv2.rectangle(frame, (x1, y1), (x2, y2), colour, 2) and
   cv2.putText(frame, text, (x, y), ...), as entries of frame.drawn: a later
   entry is painted over an earlier one. *)
Rectangle(colour, x1, y1, x2, y2) ==
    [op |-> "rectangle", what |-> colour, at |-> <<x1, y1, x2, y2>>]
PutText(text, x, y) == [op |-> "putText", what |-> text, at |-> <<x, y>>]

(* Variant: the main rectangle is drawn first, the shadow over it. *)
DrawCarPrimaryFirst(b) ==
    << Rectangle("car", b.x, b.y, b.x + b.w, b.y + b.h),
       Rectangle("car_shadow", b.x + 1, b.y + 1, b.x + b.w, b.y + b.h),
       PutText("Car", b.x, b.y - 10) >>

(* Body of "for (x, y, w, h) in cars": shadow, main rectangle, label. *)
DrawCar(b) ==
    << Rectangle("car_shadow", b.x + 1, b.y + 1, b.x + b.w, b.y + b.h),
       Rectangle("car", b.x, b.y, b.x + b.w, b.y + b.h),
       PutText("Car", b.x, b.y - 10) >>

(* Body of "for (x, y, w, h) in pedestrians": rectangle, label. *)
DrawPedestrian(b) ==
    << Rectangle("pedestrian", b.x, b.y, b.x + b.w, b.y + b.h),
       PutText("Pedestrian", b.x, b.y - 10) >>

RECURSIVE DrawCars(_)
DrawCars(boxes) ==
    IF boxes = <<>> THEN <<>>
    ELSE DrawCar(Head(boxes)) \o DrawCars(Tail(boxes))

RECURSIVE DrawPedestrians(_)
DrawPedestrians(boxes) ==
    IF boxes = <<>> THEN <<>>
    ELSE DrawPedestrian(Head(boxes)) \o DrawPedestrians(Tail(boxes))

(* draw_detections draws in place and returns the same array. *)
draw_detections(f, car_boxes, ped_boxes) ==
    [f EXCEPT !.drawn = @ \o DrawCars(car_boxes) \o DrawPedestrians(ped_boxes)]

(* dist = np.sqrt((x - px)**2 + (y - py)**2), squared: x, y, px, py are the
   top-left corners of the two boxes. *)
DistSq(b, p) == (b.x - p.x) * (b.x - p.x) + (b.y - p.y) * (b.y - p.y)

(* min_dist over prev_cars, squared (prev_cars is not empty). *)
MinDistSq(b, prev_cars) ==
    LET ds == { DistSq(b, prev_cars[i]) : i \in 1..Len(prev_cars) }
    IN  CHOOSE m \in ds : \A d \in ds : m <= d

(* "if prev_cars:" and "if min_dist < 100": the car gets the 'Moving' label. *)
IsMoving(b, prev_cars) ==
    /\ prev_cars # <<>>
    /\ MinDistSq(b, prev_cars) < TrackingDistance * TrackingDistance

RECURSIVE MovingLabels(_, _)
MovingLabels(boxes, prev_cars) ==
    IF boxes = <<>> THEN <<>>
    ELSE (IF IsMoving(Head(boxes), prev_cars)
          THEN << PutText("Moving", Head(boxes).x, Head(boxes).y - 30) >>
          ELSE <<>>)
         \o MovingLabels(Tail(boxes), prev_cars)

(* Variant: the newest history entry, that of the current frame. *)
LatestCars(history) == history[Len(history)].cars

(* self.detection_history[-2]['cars'] *)
PreviousCars(history) == history[Len(history) - 1].cars

(* The previous detections the loop over cars compares with: none when the
   history has a single entry or no car was detected. *)
Compared(car_boxes, history) ==
    IF Len(history) > 1 /\ car_boxes # <<>>
    THEN PreviousCars(history)
    ELSE <<>>

draw_detections_with_tracking(f, car_boxes, ped_boxes, history) ==
    LET g == draw_detections(f, car_boxes, ped_boxes)
    IN  [g EXCEPT !.drawn = @ \o MovingLabels(car_boxes,
                                              Compared(car_boxes, history))]

(* frame = self.draw_detections(frame, cars, pedestrians)
   frame = self.draw_detections_with_tracking(...)  (advanced) *)
DrawDetections ==
    /\ pc = "draw"
    /\ IF mode = "advanced"
       THEN /\ frame' = draw_detections_with_tracking(frame, cars, pedestrians,
                                                       detection_history)
            /\ candidates' = Compared(cars, detection_history)
       ELSE /\ frame' = draw_detections(frame, cars, pedestrians)
            /\ UNCHANGED candidates
    /\ Step("draw")
    /\ pc' = IF mode = "advanced" THEN "perf_overlay" ELSE "stats_overlay"
    /\ UNCHANGED <<prev_detected, seen, exc, exit_code, env, handles, nread, ret, stats, locals,
                   artifacts, tracking, logs>>

-----------------------------------------------------------------------------
(* Rolling timing average *)

RECURSIVE Sum(_)
Sum(s) == IF s = <<>> THEN 0 ELSE Head(s) + Sum(Tail(s))

(* Variant: s[:n], the oldest n samples. *)
FirstN(s, n) == IF Len(s) <= n THEN s ELSE SubSeq(s, 1, n)

(* s[-n:] *)
LastN(s, n) == IF Len(s) <= n THEN s ELSE SubSeq(s, Len(s) - n + 1, Len(s))

(* np.mean(detection_time[-10:]) as the fraction sum/len, and
   1.0 / avg if avg > 0 else 0 as the fraction len/sum (or 0/1). *)
RollingWindow(samples) == LastN(samples, TimingWindow)
RollingAverage(samples) ==
    [num |-> Sum(RollingWindow(samples)), den |-> Len(RollingWindow(samples))]
CurrentFps(samples) ==
    LET w == RollingWindow(samples)
    IN  IF Sum(w) > 0 THEN [num |-> Len(w), den |-> Sum(w)]
                      ELSE [num |-> 0, den |-> 1]

(* The panel of add_performance_overlay: "Detection: <average>ms" and
   "FPS: <current fps>" as two fractions, or "Detection: --ms" and "FPS: --"
   (no numbers) when there is no timing sample. *)
PerformancePanel(samples) ==
    [op |-> "panel", what |-> "performance",
     at |-> IF Len(samples) > 0
            THEN <<RollingAverage(samples).num, RollingAverage(samples).den,
                   CurrentFps(samples).num, CurrentFps(samples).den>>
            ELSE <<>>]

(* add_performance_overlay(f): appends the current fps to the fps list when
   there are samples, draws the panel on f and returns f. *)
add_performance_overlay(f) ==
    /\ fps' = IF Len(detection_time) > 0
              THEN Append(fps, CurrentFps(detection_time))
              ELSE fps
    /\ frame' = [f EXCEPT !.drawn = Append(@, PerformancePanel(detection_time))]

(* frame = self.add_performance_overlay(frame): when detection_time is not
   empty the current fps is computed and appended to the fps list. *)
PerformanceOverlay ==
    /\ pc = "perf_overlay"
    /\ add_performance_overlay(frame)
    /\ Step("perf_overlay")
    /\ pc' = "stats_overlay"
    /\ UNCHANGED <<candidates, prev_detected, seen, exc, exit_code, env, handles, nread, ret, stats, locals,
                   artifacts, detection_history, detection_time, frame_times,
                   logs>>

(* The panel of add_statistics_overlay: "Frame: n", "Cars: n",
   "Pedestrians: n". *)
StatisticsPanel(n, ncars, npedestrians) ==
    [op |-> "panel", what |-> "statistics", at |-> <<n, ncars, npedestrians>>]

(* frame = self.add_statistics_overlay(frame): the panel shows
   self.frame_count and len(self.detect_objects(frame)[0]),
   len(self.detect_objects(frame)[1]), where frame is the frame with the
   boxes, labels and earlier panels already drawn on it; d is what the
   detector answers for that frame: what it answered at the detection step
   when nothing was drawn since (the pixels are the same), any of its
   answers otherwise. *)
StatisticsOverlay ==
    /\ pc = "stats_overlay"
    /\ \E d \in DetectorOutputs :
          /\ frame.drawn = <<>> =>
                d.cars = cars /\ d.pedestrians = pedestrians
          /\ frame' = [frame EXCEPT !.drawn =
                          Append(@, StatisticsPanel(frame_count, Len(d.cars),
                                                    Len(d.pedestrians)))]
    /\ Step("stats_overlay")
    /\ pc' = "write"
    /\ UNCHANGED <<candidates, prev_detected, seen, exc, exit_code, env, handles, nread, ret, stats, locals,
                   artifacts, tracking, logs>>

(* Variant: the loop continues with the next frame right after the write,
   without showing the frame or polling the keyboard. *)
WriteFrameThenContinue ==
    /\ pc = "write"
    /\ IF writer # "none"
       THEN /\ written' = Append(written, nread)
            /\ Step("write")
       ELSE UNCHANGED <<written, tick_steps>>
    /\ stored' = IF writer = "open" THEN Append(stored, nread) ELSE stored
    /\ pc' = "read"
    /\ UNCHANGED <<overlay, exc, exit_code, env, handles, nread, ret, stats, locals,
                   screenshots, tracking, logs>>

(* if writer: writer.write(frame).  A writer object is always true; write()
   on a writer that did not open its file stores nothing and raises
   nothing. *)
WriteFrame ==
    /\ pc = "write"
    /\ IF writer # "none"
       THEN /\ written' = Append(written, nread)
            /\ Step("write")
       ELSE UNCHANGED <<written, tick_steps>>
    /\ stored' = IF writer = "open" THEN Append(stored, nread) ELSE stored
    /\ pc' = "poll"
    /\ UNCHANGED <<overlay, exc, exit_code, env, handles, nread, ret, stats, locals,
                   screenshots, tracking, logs>>

(* cv2.imshow(...); key = cv2.waitKey(1) & 0xFF *)
PollFrom(raws) ==
    /\ pc = "poll"
    /\ \E raw \in raws : key' = MaskKey(raw)
    /\ Step("poll")
    /\ pc' = "dispatch"
    /\ UNCHANGED <<overlay, exc, exit_code, env, handles, nread, ret, stats, cars,
                   pedestrians, artifacts, tracking, logs>>

PollKey == PollFrom(RawKeys)

(* Where the if/elif chain on the key falls through to: the advanced loop
   records the frame processing time, the basic loop reads the next frame. *)
AfterDispatch == IF mode = "advanced" THEN "frame_time" ELSE "read"

(* if key in [ord('k'), ord('K'), ord('q'), ord('Q')]: log; break *)
Quit ==
    /\ pc = "dispatch"
    /\ key \in QuitKeys
    /\ Log("quit")
    /\ Step("quit")
    /\ pc' = "fin_cap"
    /\ UNCHANGED <<overlay, exc, exit_code, env, handles, nread, ret, stats, locals,
                   artifacts, tracking>>

(* f"screenshot_frame_{self.frame_count}.jpg" and
   f"advanced_screenshot_frame_{self.frame_count}.jpg": the decimal rendering
   of an integer is injective, so the name is the pair (prefix, number). *)
ScreenshotPath(n) ==
    [prefix |-> IF mode = "advanced" THEN "advanced_screenshot_frame_"
                                     ELSE "screenshot_frame_",
     number |-> n]

(* Variant: the screenshot branch leaves the loop like the quit branch. *)
SaveScreenshotThenBreak ==
    /\ pc = "dispatch"
    /\ key \notin QuitKeys
    /\ key \in ScreenshotKeys
    /\ screenshots' = Append(screenshots,
                             [name |-> ScreenshotPath(frame_count),
                              frame |-> nread])
    /\ Log("screenshot")
    /\ Step("screenshot")
    /\ pc' = "fin_cap"
    /\ UNCHANGED <<overlay, exc, exit_code, env, handles, nread, ret, stats, locals,
                   written, stored, tracking>>

(* elif key in [ord('s'), ord('S')]: cv2.imwrite(screenshot_path, frame) *)
SaveScreenshot ==
    /\ pc = "dispatch"
    /\ key \notin QuitKeys
    /\ key \in ScreenshotKeys
    /\ screenshots' = Append(screenshots,
                             [name |-> ScreenshotPath(frame_count),
                              frame |-> nread])
    /\ Log("screenshot")
    /\ Step("screenshot")
    /\ pc' = AfterDispatch
    /\ UNCHANGED <<overlay, exc, exit_code, env, handles, nread, ret, stats, locals,
                   written, stored, tracking>>

(* elif key in [ord('r'), ord('R')]: self.frame_count = 0 *)
ResetFrameCount ==
    /\ pc = "dispatch"
    /\ key \notin QuitKeys
    /\ key \notin ScreenshotKeys
    /\ key \in ResetKeys
    /\ frame_count' = 0
    /\ seen' = NothingSeen
    /\ Step("reset")
    /\ pc' = "reset_cars"
    /\ UNCHANGED <<frame, candidates, prev_detected, exc, exit_code, env, handles, nread, ret, total_cars,
                   total_pedestrians, locals, artifacts, tracking, logs>>

(* self.total_cars = 0 *)
ResetTotalCars ==
    /\ pc = "reset_cars"
    /\ total_cars' = 0
    /\ pc' = "reset_peds"
    /\ UNCHANGED <<overlay, exc, exit_code, env, handles, nread, ret, frame_count,
                   total_pedestrians, locals, artifacts, tracking, tick_steps,
                   logs>>

(* Variant: the reset leaves total_pedestrians as it is. *)
ResetTotalPedestriansSkipped ==
    /\ pc = "reset_peds"
    /\ IF mode = "advanced"
       THEN /\ pc' = "reset_history"
            /\ UNCHANGED logs
       ELSE /\ pc' = AfterDispatch
            /\ Log("reset")
    /\ UNCHANGED <<overlay, exc, exit_code, env, handles, nread, ret, stats,
                   locals, artifacts, tracking, tick_steps>>

(* self.total_pedestrians = 0; the basic loop then logs "Statistics reset" *)
ResetTotalPedestrians ==
    /\ pc = "reset_peds"
    /\ total_pedestrians' = 0
    /\ IF mode = "advanced"
       THEN /\ pc' = "reset_history"
            /\ UNCHANGED logs
       ELSE /\ pc' = AfterDispatch
            /\ Log("reset")
    /\ UNCHANGED <<overlay, exc, exit_code, env, handles, nread, ret, frame_count,
                   total_cars, locals, artifacts, tracking, tick_steps>>

(* self.detection_history.clear() *)
ResetHistory ==
    /\ pc = "reset_history"
    /\ detection_history' = <<>>
    /\ pc' = "reset_metrics"
    /\ UNCHANGED <<overlay, exc, exit_code, env, handles, nread, ret, stats, locals,
                   artifacts, detection_time, fps, frame_times, tick_steps,
                   logs>>

(* self.performance_metrics = {'fps': [], 'detection_time': [],
   'frame_processing_time': []}; print(...) *)
ResetMetrics ==
    /\ pc = "reset_metrics"
    /\ detection_time' = <<>>
    /\ fps' = <<>>
    /\ frame_times' = 0
    /\ Log("reset")
    /\ pc' = AfterDispatch
    /\ UNCHANGED <<overlay, exc, exit_code, env, handles, nread, ret, stats, locals,
                   artifacts, detection_history, tick_steps>>

(* No branch of the if/elif chain matches the key. *)
NoAction ==
    /\ pc = "dispatch"
    /\ key \notin QuitKeys
    /\ key \notin ScreenshotKeys
    /\ key \notin ResetKeys
    /\ Step("none")
    /\ pc' = AfterDispatch
    /\ UNCHANGED <<overlay, exc, exit_code, env, handles, nread, ret, stats, locals,
                   artifacts, tracking, logs>>

(* performance_metrics['frame_processing_time'].append(frame_time) *)
RecordFrameTime ==
    /\ pc = "frame_time"
    /\ frame_times' = frame_times + 1
    /\ Step("frame_time")
    /\ pc' = "read"
    /\ UNCHANGED <<overlay, exc, exit_code, env, handles, nread, ret, stats, locals,
                   artifacts, detection_history, detection_time, fps, logs>>

-----------------------------------------------------------------------------
(* KeyboardInterrupt.  Python raises it in the main thread between two
   bytecodes, wherever the thread is when SIGINT arrives. *)

(* Inside "try:": control moves to "except KeyboardInterrupt:". *)
InterruptInLoop ==
    /\ pc \in TryBody
    /\ pc' = "except_ki"
    /\ UNCHANGED <<overlay, exc, exit_code, env, handles, nread, ret, stats, locals,
                   artifacts, tracking, tick_steps, logs>>

(* Inside the except clause: "finally:" still runs, then the new
   KeyboardInterrupt leaves the call. *)
InterruptInHandler ==
    /\ pc = "except_ki"
    /\ exc' = "KeyboardInterrupt"
    /\ pc' = "fin_cap"
    /\ UNCHANGED <<overlay, exit_code, env, handles, nread, ret, stats, locals,
                   artifacts, tracking, tick_steps, logs>>

(* Before "try:" is entered, or inside "finally:": no handler encloses the
   statement, the rest of the block is skipped and the exception leaves the
   call. *)
InterruptOutsideTry ==
    /\ pc \in Prologue \cup {"init_stats"} \cup FinallyBody
    /\ exc' = "KeyboardInterrupt"
    /\ pc' = RaisedTo
    /\ UNCHANGED <<overlay, exit_code, env, handles, nread, ret, stats, locals,
                   artifacts, tracking, tick_steps, logs>>

(* except KeyboardInterrupt: log "Interrupted by user" *)
ExceptKeyboardInterrupt ==
    /\ pc = "except_ki"
    /\ Log("interrupted")
    /\ pc' = "fin_cap"
    /\ UNCHANGED <<overlay, exc, exit_code, env, handles, nread, ret, stats, locals,
                   artifacts, tracking, tick_steps>>

-----------------------------------------------------------------------------
(* finally: *)

(* cap.release() *)
ReleaseCapture ==
    /\ pc = "fin_cap"
    /\ cap' = "released"
    /\ cap_releases' = cap_releases + 1
    /\ pc' = "fin_writer"
    /\ UNCHANGED <<overlay, exc, exit_code, env, writer, writer_releases, nread, ret,
                   stats, locals, artifacts, tracking, tick_steps, logs>>

(* if writer: writer.release() *)
ReleaseWriter ==
    /\ pc = "fin_writer"
    /\ IF writer # "none"
       THEN /\ writer' = "released"
            /\ writer_releases' = writer_releases + 1
       ELSE UNCHANGED <<writer, writer_releases>>
    /\ pc' = "fin_windows"
    /\ UNCHANGED <<overlay, exc, exit_code, env, cap, cap_releases, nread, ret, stats,
                   locals, artifacts, tracking, tick_steps, logs>>

(* cv2.destroyAllWindows() *)
DestroyWindows ==
    /\ pc = "fin_windows"
    /\ pc' = "fin_stats"
    /\ UNCHANGED <<overlay, exc, exit_code, env, handles, nread, ret, stats, locals,
                   artifacts, tracking, tick_steps, logs>>

(* Variant: the cleanup block ends with a return, which discards the
   exception in flight. *)
FinalStatisticsReturns ==
    /\ pc = "fin_stats"
    /\ Log("completed")
    /\ pc' = ReturnTo
    /\ UNCHANGED <<overlay, exc, exit_code, env, handles, nread, ret, stats, locals,
                   artifacts, tracking, tick_steps>>

(* The final statistics are printed from frame_count, total_cars and
   total_pedestrians; then the call returns, or the exception in flight
   leaves it. *)
FinalStatistics ==
    /\ pc = "fin_stats"
    /\ Log("completed")
    /\ pc' = IF exc = "none" THEN ReturnTo ELSE RaisedTo
    /\ UNCHANGED <<overlay, exc, exit_code, env, handles, nread, ret, stats, locals,
                   artifacts, tracking, tick_steps>>

-----------------------------------------------------------------------------
(* main() *)

(* tracker.process_video(...) returned: main falls off its end. *)
MainReturn ==
    /\ pc = "main_return"
    /\ exit_code' = 0
    /\ pc' = "done"
    /\ UNCHANGED <<overlay, exc, env, handles, nread, ret, stats, locals, artifacts,
                   tracking, tick_steps, logs>>

(* except FileNotFoundError / RuntimeError / Exception: log, sys.exit(1).
   KeyboardInterrupt is no Exception: it is not caught and the interpreter
   ends the process with the status of a SIGINT death. *)
MainExcept ==
    /\ pc = "main_except"
    /\ IF exc \in {"FileNotFoundError", "RuntimeError", "cv2.error"}
       THEN /\ exit_code' = 1
            /\ Log("main_error")
       ELSE /\ exit_code' = 130
            /\ UNCHANGED logs
    /\ pc' = "done"
    /\ UNCHANGED <<overlay, exc, env, handles, nread, ret, stats, locals, artifacts,
                   tracking, tick_steps>>

-----------------------------------------------------------------------------
Next ==
    \/ LoadCarCascade
    \/ LoadPedestrianCascade
    \/ InitStatistics
    \/ OpenSource
    \/ SetupWriter
    \/ SetupWriterRaises
    \/ ReadFrame
    \/ IncrementFrameCount
    \/ Detect
    \/ DetectorRaises
    \/ AddCars
    \/ AddPedestrians
    \/ DrawDetections
    \/ PerformanceOverlay
    \/ StatisticsOverlay
    \/ WriteFrame
    \/ PollKey
    \/ Quit
    \/ SaveScreenshot
    \/ ResetFrameCount
    \/ ResetTotalCars
    \/ ResetTotalPedestrians
    \/ ResetHistory
    \/ ResetMetrics
    \/ NoAction
    \/ RecordFrameTime
    \/ InterruptInLoop
    \/ InterruptInHandler
    \/ InterruptOutsideTry
    \/ ExceptKeyboardInterrupt
    \/ ReleaseCapture
    \/ ReleaseWriter
    \/ DestroyWindows
    \/ FinalStatistics
    \/ MainReturn
    \/ MainExcept

Spec == Init /\ [][Next]_vars

-----------------------------------------------------------------------------
(* The long run of the advanced tracker: every file loads, the source opens
   and delivers up to LongRun frames, no output file, no key is pressed, no
   signal arrives, the detector does not fail. *)

InitLong ==
    /\ Init
    /\ mode = "advanced"
    /\ car_cascade = "ok"
    /\ ped_cascade = "ok"
    /\ source_ok
    /\ ~output_path

ReadFrameLong == ReadUpTo(LongRun)

DetectLong ==
    IF frame_count <= VariedFrames
    THEN DetectFrom(TrackedOutputs, TimeSamples)
    ELSE DetectFrom({EmptyRoad}, {0})

(* tracker.add_performance_overlay(frame) called on a fresh frame once the
   tracker is constructed, before any detection has been timed. *)
OverlayBeforeProcessing ==
    /\ pc = "open"
    /\ frame = NoFrame
    /\ add_performance_overlay(RawFrame)
    /\ UNCHANGED <<pc, candidates, prev_detected, seen, exc, exit_code, env, handles,
                   nread, ret, stats, locals, artifacts, detection_history,
                   detection_time, frame_times, tick_steps, logs>>

(* cv2.waitKey(1) answers -1: no key was pressed during the wait. *)
PollKeyIdle == PollFrom({-1})

NextLong ==
    \/ LoadCarCascade
    \/ LoadPedestrianCascade
    \/ InitStatistics
    \/ OverlayBeforeProcessing
    \/ OpenSource
    \/ SetupWriter
    \/ ReadFrameLong
    \/ IncrementFrameCount
    \/ DetectLong
    \/ AddCars
    \/ AddPedestrians
    \/ DrawDetections
    \/ PerformanceOverlay
    \/ StatisticsOverlay
    \/ WriteFrame
    \/ PollKeyIdle
    \/ NoAction
    \/ RecordFrameTime
    \/ ReleaseCapture
    \/ ReleaseWriter
    \/ DestroyWindows
    \/ FinalStatistics

SpecLong == InitLong /\ [][NextLong]_vars


-----------------------------------------------------------------------------
(* Vocabulary of the properties *)

(* The call (process_video / process_video_with_advanced_features, or the
   constructor before it) has returned or raised. *)
Terminated == pc \in {"main_return", "main_except", "done"}

(* A KeyboardInterrupt was delivered during the run. *)
Interrupted == "interrupted" \in logs \/ exc = "KeyboardInterrupt"

(* Positions between the first and the last assignment of the reset. *)
ResetBody == {"reset_cars", "reset_peds", "reset_history", "reset_metrics"}

QuitAliases == {Ord.k, Ord.K, Ord.q, Ord.Q}
ScreenshotAliases == {Ord.s, Ord.S}
ResetAliases == {Ord.r, Ord.R}

InSeq(x, s) == \E i \in DOMAIN s : s[i] = x

-----------------------------------------------------------------------------
(* C1: every run that opened the source releases the capture handle exactly
   once and, when a writer was created, the writer exactly once, whichever
   way the run ends; no release happens twice. *)
C1_ReleasedExactlyOnce ==
    /\ cap_releases <= 1
    /\ writer_releases <= 1
    /\ (Terminated /\ cap # "none") =>
          /\ cap_releases = 1
          /\ writer # "none" => writer_releases = 1

(* C2: a read that failed (not a clean end of stream) is never reported as
   "End of video stream", and the run it ends surfaces an error. *)
C2_ReadFailureSurfaced ==
    (ret = "fail" /\ nread >= 1) =>
        /\ "end_of_stream" \notin logs
        /\ Terminated => exc # "none"

(* C3: in main, the exit code is 0 exactly when the run completed normally
   (clean end of stream) or by Quit, and is non-zero whenever the source could
   not be opened or a cascade could not be loaded. *)
C3_ExitCode ==
    (mode = "main" /\ pc = "done") =>
        /\ exit_code = 0 <=>
              /\ exc = "none"
              /\ ~Interrupted
              /\ ret = "eos" \/ "quit" \in logs
        /\ ("source_error" \in logs
              \/ exc \in {"FileNotFoundError", "RuntimeError"}) => exit_code # 0

(* Positions after a reset whose statement comes before the next read
   ("read", "frame_time") or reads the statistics (the final report). *)
AfterResetPoints == {"read", "frame_time", "fin_stats"}

(* C4: once a reset has begun in a tick, the loop before its next read and
   the final report see frame_count, both totals and the timing samples all
   zeroed: all of them, never only some of them. *)
C4_ResetAtomic ==
    (InSeq("reset", tick_steps) /\ pc \in AfterResetPoints /\ exc = "none") =>
        /\ frame_count = 0
        /\ total_cars = 0
        /\ total_pedestrians = 0
        /\ detection_time = <<>>

(* C5: whichever quit alias (k, K, q, Q) is the polled key, the dispatch step
   leaves the loop for the release path in that same tick, with the current
   frame already counted and written, changing nothing else; and once Quit
   was taken nothing is read, detected, counted or written any more. *)
C5_QuitAliasesIdentical ==
    [][ /\ (pc = "dispatch" /\ key \in QuitAliases) =>
              /\ InSeq("count", tick_steps)
              /\ InSeq("detect", tick_steps)
              /\ writer # "none" =>
                    (written # <<>> /\ written[Len(written)] = nread)
              /\ pc' # "except_ki" =>
                    /\ pc' = "fin_cap"
                    /\ "quit" \in logs'
                    /\ UNCHANGED <<overlay, exc, exit_code, handles, nread, ret, stats,
                                   locals, artifacts, tracking>>
        /\ "quit" \in logs =>
              UNCHANGED <<nread, stats, cars, pedestrians, artifacts,
                          tracking>>
      ]_vars

C5_Witness ==
    /\ pc = "fin_cap"
    /\ "quit" \in logs
    /\ key = Ord.K
    /\ writer = "open"
    /\ Len(written) = 2

(* C6: within a tick the statements run in the order read (and count),
   detect, aggregate the totals, draw the overlays, write, poll, apply the
   action; and a frame is read only when the previous frame's poll and action
   are done. *)
Rank(step) ==
    CASE step \in {"read", "count"} -> 1
      [] step = "detect" -> 2
      [] step \in {"total_cars", "total_pedestrians"} -> 3
      [] step \in {"draw", "perf_overlay", "stats_overlay"} -> 4
      [] step = "write" -> 5
      [] step = "poll" -> 6
      [] step \in {"quit", "screenshot", "reset", "none"} -> 7
      [] OTHER -> 8

InOrder(steps) ==
    \A i, j \in DOMAIN steps :
        i < j => /\ Rank(steps[i]) <= Rank(steps[j])
                 /\ steps[i] # steps[j]

CompleteTick(steps) ==
    /\ \A r \in {1, 2, 3, 4, 6, 7} : \E i \in DOMAIN steps : Rank(steps[i]) = r
    /\ writer # "none" => InSeq("write", steps)
    /\ InSeq("count", steps)
    /\ InSeq("total_cars", steps) /\ InSeq("total_pedestrians", steps)
    /\ InSeq("draw", steps) /\ InSeq("stats_overlay", steps)

C6_StrictSequence ==
    [][ /\ InOrder(tick_steps')
        /\ nread' # nread => (nread = 0 \/ CompleteTick(tick_steps))
        /\ pc' = "dispatch" => InSeq("poll", tick_steps')
      ]_vars

C6_Witness ==
    /\ nread = 2
    /\ pc = "count"
    /\ writer = "open"
    /\ written = <<1>>

(* C7: frame_count, total_cars and total_pedestrians never decrease in a
   step, except in the steps of an applied reset. *)
C7_CountersMonotone ==
    [][ (\/ frame_count' < frame_count
         \/ total_cars' < total_cars
         \/ total_pedestrians' < total_pedestrians)
        => /\ key \in ResetAliases
           /\ pc \in {"dispatch", "reset_cars", "reset_peds"}
      ]_vars

C7_Witness ==
    /\ pc = "reset_cars"
    /\ frame_count = 0
    /\ total_cars > 0
    /\ nread = 2

(* C8: two screenshots taken on different ticks never have the same
   artifact name. *)
C8_ScreenshotNamesUnique ==
    \A i, j \in DOMAIN screenshots :
        screenshots[i].frame # screenshots[j].frame
            => screenshots[i].name # screenshots[j].name

(* C9: applying SaveScreenshot (s or S) keeps the loop running and changes
   neither the counters, the detection history nor the timing samples, nor
   anything but the artifact list: it writes the current frame under the
   name made from frame_count. *)
C9_ScreenshotNoStateChange ==
    [][ (pc = "dispatch" /\ key \in ScreenshotAliases /\ pc' # "except_ki") =>
           /\ pc' \in {"read", "frame_time"}
           /\ screenshots' = Append(screenshots,
                                    [name |-> ScreenshotPath(frame_count),
                                     frame |-> nread])
           /\ UNCHANGED <<overlay, exc, exit_code, handles, nread, ret, stats, locals,
                          written, stored, tracking>>
      ]_vars

C9_Witness ==
    /\ InSeq("screenshot", tick_steps)
    /\ key = Ord.S
    /\ Len(screenshots) = 2
    /\ frame_count = 2
    /\ Len(detection_history) = 2

(* C10: when the run has ended through "except KeyboardInterrupt", the frame
   counted last in frame_count also had its detections added to both totals
   and, with a writer, was written. *)
C10_InterruptAtTickBoundary ==
    (Terminated /\ "interrupted" \in logs /\ exc = "none"
        /\ InSeq("count", tick_steps) /\ ~InSeq("reset", tick_steps)) =>
        /\ InSeq("total_cars", tick_steps)
        /\ InSeq("total_pedestrians", tick_steps)
        /\ writer # "none" => InSeq("write", tick_steps)

(* C11: whenever the call has returned or raised (other than by a
   KeyboardInterrupt), no handle it acquired is still unreleased: the
   capture is not left open and a created writer is not left unreleased. *)
C11_AllReleasedOnExit ==
    (Terminated /\ exc # "KeyboardInterrupt") =>
        /\ cap # "open"
        /\ writer \notin WriterOutcomes

(* C17: the loop is entered (a frame is read or processed) only with the
   source opened and, when an output path is configured, with a writer that
   was set up successfully. *)
C17_RunningOnlyAfterSetup ==
    nread > 0 =>
        /\ cap # "none"
        /\ output_path => writer \in {"open", "released"}

(* The first thing that fails before the loop, if any. *)
FirstFailure ==
    IF car_cascade # "ok" THEN car_cascade
    ELSE IF ped_cascade # "ok" THEN ped_cascade
    ELSE IF ~source_ok THEN "source"
    ELSE "nothing"

(* C16: when a cascade file is missing or unloadable, or the source cannot
   be opened, the loop is never entered: no frame is read, no detection
   runs, no statistic changes, nothing is written, no handle is held; and
   unless the user interrupts first, a missing file ends construction with
   FileNotFoundError, an unloadable one with RuntimeError, and an unopened
   source ends process_video by a plain return after logging the error. *)
C16_FailFast ==
    FirstFailure # "nothing" =>
        /\ pc \notin TryBody \cup FinallyBody \cup {"except_ki", "setup_writer"}
        /\ nread = 0 /\ ret = "none" /\ tick_steps = <<>>
        /\ frame_count = 0 /\ total_cars = 0 /\ total_pedestrians = 0
        /\ detection_history = <<>> /\ detection_time = <<>>
        /\ written = <<>> /\ screenshots = <<>>
        /\ cap = "none" /\ writer = "none"
        /\ (Terminated /\ exc # "KeyboardInterrupt") =>
              /\ FirstFailure = "missing" => exc = "FileNotFoundError"
              /\ FirstFailure = "empty" => exc = "RuntimeError"
              /\ FirstFailure = "source" =>
                    exc = "none" /\ "source_error" \in logs

C16_Witness ==
    /\ Terminated
    /\ car_cascade = "ok" /\ ped_cascade = "missing"
    /\ exc = "FileNotFoundError"
    /\ nread = 0 /\ cap = "none"

(* C18: once a detector error is in flight (a cv2.error raised after a frame
   was read), the loop is left for good: no statement of the loop runs, no
   further frame is read, the call ends with capture and writer released,
   and the error is not swallowed: the call does not return normally, and
   main() exits with status 1. *)
C18_DetectorErrorFatal ==
    [][(exc' = "cv2.error" /\ nread' >= 1) =>
          /\ pc' \in FinallyBody \cup {"main_except", "done"}
          /\ exc = "cv2.error" => nread' = nread
          /\ pc' \in {"main_except", "done"} =>
                /\ cap' = "released"
                /\ writer' \in {"none", "released"}
          /\ (mode = "main" /\ pc' = "done") => exit_code' = 1]_vars

C18_Witness ==
    /\ mode = "main" /\ pc = "done"
    /\ exc = "cv2.error" /\ nread >= 2
    /\ cap = "released" /\ writer = "released"
    /\ exit_code = 1

-----------------------------------------------------------------------------
(* Tracking, history and overlays *)

(* Positions of a tick after the drawing step and before the key is acted
   on: the frame, the locals and the statistics are those of this tick. *)
Drawn == {"perf_overlay", "stats_overlay", "write", "poll", "dispatch"}

Min(a, b) == IF a <= b THEN a ELSE b

(* Four times the squared distance between the centres of two boxes (the
   centre of a box is (x + w/2, y + h/2)). *)
CentroidDistSq4(b, p) ==
    (2 * b.x + b.w - 2 * p.x - p.w) * (2 * b.x + b.w - 2 * p.x - p.w)
    + (2 * b.y + b.h - 2 * p.y - p.h) * (2 * b.y + b.h - 2 * p.y - p.h)

MovingLabelOf(b) == [op |-> "putText", what |-> "Moving", at |-> <<b.x, b.y - 30>>]

(* C12: when a frame's cars were compared with a non-empty set of previous
   cars, a car is marked as continuing a track (gets the 'Moving' label)
   exactly when the least distance between its centroid and the previous
   boxes' centroids is strictly below 100. *)
C12_MatchByCentroid ==
    (pc \in Drawn /\ candidates # <<>>) =>
        \A i \in 1..Len(cars) :
            InSeq(MovingLabelOf(cars[i]), frame.drawn)
            <=> \E j \in 1..Len(candidates) :
                   CentroidDistSq4(cars[i], candidates[j])
                       < 4 * TrackingDistance * TrackingDistance

(* C13: in the advanced loop the cars a tick's drawing compares with are
   those detected for the frame processed just before it, and there are
   none on the first tick after the start or after a reset (frame_count
   is 1 there) -- nor when the tick itself detected no car. *)
C13_CandidatesArePreviousFrame ==
    (mode = "advanced" /\ pc \in Drawn) =>
        candidates = IF frame_count >= 2 /\ cars # <<>>
                     THEN prev_detected
                     ELSE <<>>

C13_Witness ==
    /\ mode = "advanced" /\ pc = "perf_overlay"
    /\ nread = 3 /\ frame_count = 3
    /\ candidates # <<>> /\ candidates = prev_detected
    /\ detection_history[1].cars = <<>>

(* Number of detect_objects_with_tracking calls since the tracker was
   constructed (no reset happens in the long run). *)
Detections == IF pc = "detect" THEN frame_count - 1 ELSE frame_count

(* C14: the history never holds more than 30 entries, and it is the most
   recent min(n, 30) of the n entries appended, oldest first: entry i is
   the one of frame n - len + i, and the last one holds the detections
   just returned. *)
C14_HistoryWindow ==
    LET h == detection_history
        n == Detections
    IN  /\ Len(h) <= HistoryWindow
        /\ mode = "advanced" =>
              /\ Len(h) = Min(n, HistoryWindow)
              /\ \A i \in 1..Len(h) : h[i].frame = n - Len(h) + i
              /\ Len(h) > 0 =>
                    /\ h[Len(h)].cars = cars
                    /\ h[Len(h)].pedestrians = pedestrians

C14_Witness ==
    /\ pc = "add_cars"
    /\ frame_count = LongRun
    /\ Len(detection_history) = HistoryWindow
    /\ detection_history[1].frame = LongRun - HistoryWindow + 1
    /\ detection_history[HistoryWindow].frame = LongRun

RECURSIVE SumRange(_, _, _)
SumRange(s, lo, hi) == IF lo > hi THEN 0 ELSE s[lo] + SumRange(s, lo + 1, hi)

(* C15: the performance panel shows the average of exactly the most recent
   min(n, 10) of the n timing samples; with n = 0 it shows no number and
   nothing is appended to the fps list; and the fps derived from the average
   never has a zero denominator, also when the samples are 0. *)
C15_RollingAverage ==
    pc \in {"open", "stats_overlay", "write", "poll", "dispatch"} =>
        \A i \in 1..Len(frame.drawn) :
            frame.drawn[i].what = "performance" =>
                LET shown == frame.drawn[i].at
                    n == Len(detection_time)
                    k == Min(n, TimingWindow)
                    total == SumRange(detection_time, n - k + 1, n)
                IN  IF n = 0
                    THEN shown = <<>> /\ fps = <<>>
                    ELSE /\ Len(shown) = 4
                         /\ shown[1] = total /\ shown[2] = k
                         /\ shown[4] # 0
                         /\ total > 0 => shown[3] = k /\ shown[4] = total
                         /\ total = 0 => shown[3] = 0
                         /\ fps # <<>>
                         /\ fps[Len(fps)] = [num |-> shown[3], den |-> shown[4]]

C15_Witness ==
    /\ pc = "stats_overlay"
    /\ Len(detection_time) = TimingWindow + 1
    /\ detection_time[1] = 2 /\ detection_time[2] = 2
    /\ fps[Len(fps)] = [num |-> TimingWindow, den |-> 2]

ShadowOf(b) ==
    [op |-> "rectangle", what |-> "car_shadow",
     at |-> <<b.x + 1, b.y + 1, b.x + b.w, b.y + b.h>>]
PrimaryOf(b) ==
    [op |-> "rectangle", what |-> "car",
     at |-> <<b.x, b.y, b.x + b.w, b.y + b.h>>]

(* C19: once the detections of a tick are drawn, every car has its shadow
   rectangle and its main rectangle on the frame, the shadow drawn strictly
   before the main one; every shadow on the frame is the shadow of a car
   (none belongs to a pedestrian); and the frame has the shape and pixel
   type it had before. *)
C19_ShadowBeforePrimary ==
    LET d == frame.drawn IN
    pc \in Drawn =>
        /\ \A i \in 1..Len(cars) :
              /\ InSeq(ShadowOf(cars[i]), d)
              /\ InSeq(PrimaryOf(cars[i]), d)
              /\ \A a, b \in 1..Len(d) :
                    (d[a] = ShadowOf(cars[i]) /\ d[b] = PrimaryOf(cars[i]))
                        => a < b
        /\ \A a \in 1..Len(d) :
              d[a].what = "car_shadow" =>
                  /\ \E i \in 1..Len(cars) : d[a] = ShadowOf(cars[i])
                  /\ \A j \in 1..Len(pedestrians) :
                        d[a] # ShadowOf(pedestrians[j])
        /\ Cardinality({a \in 1..Len(d) : d[a].what = "car_shadow"}) = Len(cars)
        /\ frame.shape = RawFrame.shape
        /\ frame.dtype = RawFrame.dtype

C19_Witness ==
    /\ mode = "main" /\ pc = "stats_overlay"
    /\ Len(cars) = 2 /\ Len(pedestrians) = 1
    /\ Len(frame.drawn) = 8

(* C20: the car and pedestrian counts on the statistics panel of a frame
   are the numbers of cars and pedestrians the tick's detection step
   returned for that frame. *)
C20_PanelShowsTickCounts ==
    \A i \in 1..Len(frame.drawn) :
        frame.drawn[i].what = "statistics" =>
            /\ frame.drawn[i].at[2] = Len(cars)
            /\ frame.drawn[i].at[3] = Len(pedestrians)

-----------------------------------------------------------------------------
(* Output file *)

(* Positions of a tick before the write statement has run, and after it. *)
BeforeWrite == {"count", "detect", "add_cars", "add_peds", "draw",
                "perf_overlay", "stats_overlay", "write"}
AfterWrite == {"poll", "dispatch", "reset_cars", "reset_peds",
               "reset_history", "reset_metrics", "frame_time"}

(* The loop was left by a break: end of stream or Quit, no exception, no
   interrupt. *)
EndedByBreak ==
    /\ pc \in FinallyBody \cup {"main_return", "main_except", "done"}
    /\ exc = "none"
    /\ "interrupted" \notin logs
    /\ ret \in {"eos", "fail"} \/ "quit" \in logs

(* C21: with an output path every frame read gets into the output file
   exactly once, in read order, not before its overlays are composed and
   before the key of its tick is polled; a run that ends by end of stream
   or Quit leaves as many frames in the file as it read; without an output
   path nothing is written. *)
C21_EveryFrameWrittenOnce ==
    /\ ~output_path => (stored = <<>> /\ written = <<>>)
    /\ \A i \in 1..Len(stored) : stored[i] = i
    /\ (output_path /\ pc \in BeforeWrite) => Len(stored) = nread - 1
    /\ (output_path /\ pc \in AfterWrite) =>
          /\ Len(stored) = nread
          /\ InSeq("stats_overlay", tick_steps)
    /\ (output_path /\ EndedByBreak) => Len(stored) = nread

(* C22: between two ticks, and when the loop was left by end of stream or
   Quit, frame_count is the number of frames read since the last reset was
   applied (since construction if none was), and total_cars and
   total_pedestrians are the numbers of cars and pedestrians detected in
   exactly those frames. *)
C22_StatisticsMatchFramesSinceReset ==
    (pc = "read" \/ EndedByBreak) =>
        /\ frame_count = seen.frames
        /\ total_cars = seen.cars
        /\ total_pedestrians = seen.pedestrians

(* After a reset on the first frame, a frame with detections and then a
   frame without any: the counter follows, the totals stay. *)
C22_Witness ==
    /\ pc = "read"
    /\ nread = 3 /\ frame_count = 2
    /\ cars = <<>> /\ pedestrians = <<>>
    /\ total_cars = 2 /\ total_pedestrians = 1
    /\ seen = [frames |-> 2, cars |-> 2, pedestrians |-> 1]

====
